---- MODULE Spec2Model ----
(***************************************************************************)
(* Model of the QwiicSerlcdU driver (src/qwiic_serlcd_u.py): one handle,   *)
(* its fields, and one action per public method.  Every bus write of an    *)
(* operation and every sleep is recorded, in order, in `bus`.              *)
(*                                                                         *)
(* The I2C object is a collaborator of the driver: each writeto() returns  *)
(* a result that is either truthy ("ok") or falsy ("fail"); the model      *)
(* draws it per write.                                                     *)
(*                                                                         *)
(* The driver observes the clock only through                              *)
(*   ticks_diff(ticks_ms(), self.last_refreshed)                           *)
(* so the clock and the last_refreshed field are kept as that difference,  *)
(* `elapsed` (ms), which saturates at MaxElapsed, above every duration a   *)
(* caller passes in the model.  The wrap of ticks_ms() is not modelled.    *)
(***************************************************************************)
EXTENDS Integers, Sequences, FiniteSets, TLC

\* ---------------------------------------------------------------------
\* Bounds of the model
\* ---------------------------------------------------------------------
MaxLen == 3
MaxColumns == 2
MaxRows == 2
MaxCol == 45
MaxFailures == 1
MaxElapsed == 40

\* ---------------------------------------------------------------------
\* Program constants
\* ---------------------------------------------------------------------
MAX_ROWS == 4
SPECIAL_COMMAND == 254
SETTING_COMMAND == 124
CLEAR_COMMAND == 45
CONTRAST_COMMAND == 24
ADDRESS_COMMAND == 25
SET_RGB_COMMAND == 43
ENABLE_SYSTEM_MESSAGE_DISPLAY == 46
DISABLE_SYSTEM_MESSAGE_DISPLAY == 47
ENABLE_SPLASH_DISPLAY == 48
DISABLE_SPLASH_DISPLAY == 49
SAVE_CURRENT_DISPLAY_AS_SPLASH == 10
LCD_ENTRYMODESET == 4
LCD_DISPLAYCONTROL == 8
LCD_SETDDRAMADDR == 128
LCD_ENTRYLEFT == 2
LCD_ENTRYSHIFTDECREMENT == 0
LCD_DISPLAYON == 4
LCD_CURSOROFF == 0
LCD_CURSORON == 2
LCD_BLINKOFF == 0
LCD_BLINKON == 1
SettleMs == 10
AddressSettleMs == 50
BeginWaitMs == 1000
Space == 32

\* ---------------------------------------------------------------------
\* Input sets
\* ---------------------------------------------------------------------
Chars == {65, 66}
TextsUpTo(n) == UNION {[1..k -> Chars] : k \in 0..n}
MainTexts == {<<>>, <<65>>, <<65, 66>>}
AllTexts == TextsUpTo(MaxLen)
Durations == {10, 30}
Addresses == {114, 80}
DefaultAddress == 114
ByteValues == {0, 255}
CursorCols == 0..MaxCol
CursorRows == -2..5
MainCursorCols == {1}
MainCursorRows == {-1, 1, 4}
Results == {"ok", "fail"}
Outcomes(k) ==
    {r \in [1..k -> Results] : Cardinality({i \in 1..k : r[i] = "fail"}) <= MaxFailures}

VARIABLES address, lcd_columns, lcd_rows, index, elapsed, displayControl,
          bus, call, ret, window

vars == <<address, lcd_columns, lcd_rows, index, elapsed, displayControl,
          bus, call, ret, window>>

\* ---------------------------------------------------------------------
\* Python integer and sequence primitives used by the driver
\* ---------------------------------------------------------------------
Min(a, b) == IF a < b THEN a ELSE b
Max(a, b) == IF a > b THEN a ELSE b

RECURSIVE BitOr(_, _)
BitOr(a, b) ==
    IF a = 0 THEN b
    ELSE IF b = 0 THEN a
    ELSE 2 * BitOr(a \div 2, b \div 2) + (IF a % 2 = 1 \/ b % 2 = 1 THEN 1 ELSE 0)

RECURSIVE BitAnd(_, _)
BitAnd(a, b) ==
    IF a = 0 \/ b = 0 THEN 0
    ELSE 2 * BitAnd(a \div 2, b \div 2) + (IF a % 2 = 1 /\ b % 2 = 1 THEN 1 ELSE 0)

\* x & ~m for non-negative x and m
BitAndNot(x, m) == x - BitAnd(x, m)

\* a slice bound as Python normalises it against a length n
SliceBound(i, n) == IF i < 0 THEN Max(n + i, 0) ELSE Min(i, n)

\* s[lo:hi]
PySlice(s, lo, hi) ==
    LET l == SliceBound(lo, Len(s))
        h == SliceBound(hi, Len(s))
    IN  IF l >= h THEN <<>> ELSE SubSeq(s, l + 1, h)

\* bool(result)
PyBool(r) == IF r = "ok" THEN "True" ELSE "False"

\* the results of begin combined with | for &
PyBoolAnd_or(a, b) == IF a = "True" \/ b = "True" THEN "True" ELSE "False"

\* bool & bool
PyBoolAnd(a, b) == IF a = "True" /\ b = "True" THEN "True" ELSE "False"

\* ---------------------------------------------------------------------
\* Events on the bus and the clock
\* ---------------------------------------------------------------------
WriteEv(kind, addr, data, res) ==
    [ev |-> kind, addr |-> addr, data |-> data, res |-> res, ms |-> 0]

SleepEv(ms) ==
    [ev |-> "sleep", addr |-> 0, data |-> <<>>, res |-> "None", ms |-> ms]

RECURSIVE Slept(_)
Slept(log) == IF log = <<>> THEN 0 ELSE Head(log).ms + Slept(Tail(log))

Sat(t) == Min(t, MaxElapsed)

Call(op, s1, s2, i1, i2, i3) ==
    [op |-> op, s1 |-> s1, s2 |-> s2, i1 |-> i1, i2 |-> i2, i3 |-> i3]

NoWindow == [index |-> 0, text |-> <<>>]

\* ---------------------------------------------------------------------
\* Transport
\* ---------------------------------------------------------------------
\* send_commands returning right after the write
send_commands_nosleep(addr, block, res) ==
    << WriteEv("cmd", addr, block, res) >>

send_commands(addr, block, res) ==
    << WriteEv("cmd", addr, block, res), SleepEv(SettleMs) >>

\* send_text returning right after the write
send_text_nosleep(addr, text, res) ==
    << WriteEv("text", addr, text, res) >>

send_text(addr, text, res) ==
    << WriteEv("text", addr, text, res), SleepEv(SettleMs) >>

\* ---------------------------------------------------------------------
\* Construction
\* ---------------------------------------------------------------------
Construct(cols, rows) ==
    /\ address = DefaultAddress
    /\ lcd_columns \in cols
    /\ lcd_rows \in rows
    /\ index = 0
    /\ elapsed = 0
    /\ displayControl = BitOr(BitOr(LCD_DISPLAYON, LCD_CURSOROFF), LCD_BLINKOFF)
    /\ bus = <<>>
    /\ call = Call("__init__", <<>>, <<>>, 0, 0, 0)
    /\ ret = "None"
    /\ window = NoWindow

\* the entry mode with the display shift switched on
displayMode_shift == BitOr(LCD_ENTRYLEFT, 1)

displayMode == BitOr(LCD_ENTRYLEFT, LCD_ENTRYSHIFTDECREMENT)

\* the default read as hexadecimal: 0x20
defaultValue_hex == 2 * 16

defaultValue == 20

\* what every operation other than display_scrolling leaves behind
Returns(log, result, c) ==
    /\ bus' = log
    /\ ret' = result
    /\ call' = c
    /\ elapsed' = Sat(elapsed + Slept(log))
    /\ window' = NoWindow

\* ---------------------------------------------------------------------
\* Text output
\* ---------------------------------------------------------------------
clear_display_writes(addr, res) ==
    send_commands(addr, <<SETTING_COMMAND, CLEAR_COMMAND>>, res)

\* display sending the whole message
display_writes_uncut(addr, cols, rows, message, r1, r2) ==
    send_commands(addr, <<SETTING_COMMAND, CLEAR_COMMAND>>, r1)
        \o send_text(addr, message, r2)

\* display cutting the message to one row: message[0:self.lcd_columns]
display_writes_one_row(addr, cols, rows, message, r1, r2) ==
    send_commands(addr, <<SETTING_COMMAND, CLEAR_COMMAND>>, r1)
        \o send_text(addr, PySlice(message, 0, cols), r2)

\* body of display(message): the clear, then the truncated text
display_writes(addr, cols, rows, message, r1, r2) ==
    send_commands(addr, <<SETTING_COMMAND, CLEAR_COMMAND>>, r1)
        \o send_text(addr, PySlice(message, 0, cols * rows), r2)

display(texts) ==
    \E message \in texts, r \in Outcomes(2) :
        /\ Returns(display_writes(address, lcd_columns, lcd_rows, message, r[1], r[2]),
                   "None", Call("display", message, <<>>, 0, 0, 0))
        /\ UNCHANGED <<address, lcd_columns, lcd_rows, index, displayControl>>

append_display(texts) ==
    \E message \in texts, r \in Outcomes(1) :
        /\ Returns(send_text(address, message, r[1]),
                   r[1], Call("append_display", message, <<>>, 0, 0, 0))
        /\ UNCHANGED <<address, lcd_columns, lcd_rows, index, displayControl>>

\* display_lines without the padding loop
PadLine_none(line, cols) == line

\* the loop that appends " " for i in range(len(line_1), lcd_columns)
PadLine(line, cols) ==
    line \o [i \in 1..Max(cols - Len(line), 0) |-> Space]

\* the message display_lines hands to display
lines_message(first_line, second_line, cols) ==
    LET line_1 == PySlice(first_line, 0, cols)
        line_2 == PySlice(second_line, 0, cols)
    IN  PadLine(line_1, cols) \o line_2

display_lines(texts) ==
    \E first_line \in texts, second_line \in texts, r \in Outcomes(2) :
        /\ Returns(display_writes(address, lcd_columns, lcd_rows,
                                  lines_message(first_line, second_line, lcd_columns),
                                  r[1], r[2]),
                   "None", Call("display_lines", first_line, second_line, 0, 0, 0))
        /\ UNCHANGED <<address, lcd_columns, lcd_rows, index, displayControl>>

\* the window without the wrap-around part
visible_message_nowrap(message, cols, rows, idx) ==
    PySlice(message, idx, cols * rows + idx)

\* visible_message as display_scrolling composes it
visible_message(message, cols, rows, idx) ==
    LET head == PySlice(message, idx, cols * rows + idx)
    IN  IF cols * rows + idx > Len(message)
        THEN head \o PySlice(message, 0, cols * rows + idx - Len(message))
        ELSE head

\* the index reset one step early: if self.index >= len(message)
next_index_early(message, idx) ==
    IF idx + 1 >= Len(message) THEN 0 ELSE idx + 1

\* self.index += 1, reset once it exceeds len(message)
next_index(message, idx) ==
    IF idx + 1 > Len(message) THEN 0 ELSE idx + 1

\* the refresh test with >= for >
refresh_due_ge(since, duration) == since >= duration

\* utime.ticks_diff(utime.ticks_ms(), self.last_refreshed) > duration
refresh_due(since, duration) == since > duration

display_scrolling(texts) ==
    \E message \in texts, duration \in Durations, r \in Outcomes(2) :
        /\ call' = Call("display_scrolling", message, <<>>, duration, 0, 0)
        /\ ret' = "None"
        /\ IF refresh_due(elapsed, duration)
           THEN /\ window' = [index |-> index,
                              text |-> visible_message(message, lcd_columns, lcd_rows, index)]
                /\ bus' = display_writes(address, lcd_columns, lcd_rows,
                                         window'.text, r[1], r[2])
                /\ elapsed' = 0
                /\ index' = next_index(message, index)
           ELSE /\ window' = NoWindow
                /\ bus' = <<>>
                /\ UNCHANGED <<elapsed, index>>
        /\ UNCHANGED <<address, lcd_columns, lcd_rows, displayControl>>

clear_display ==
    \E r \in Outcomes(1) :
        /\ Returns(clear_display_writes(address, r[1]),
                   r[1], Call("clear_display", <<>>, <<>>, 0, 0, 0))
        /\ UNCHANGED <<address, lcd_columns, lcd_rows, index, displayControl>>

\* ---------------------------------------------------------------------
\* Settings
\* ---------------------------------------------------------------------
set_contrast ==
    \E contrast \in ByteValues, r \in Outcomes(1) :
        /\ Returns(send_commands(address, <<SETTING_COMMAND, CONTRAST_COMMAND, contrast>>, r[1]),
                   r[1], Call("set_contrast", <<>>, <<>>, contrast, 0, 0))
        /\ UNCHANGED <<address, lcd_columns, lcd_rows, index, displayControl>>

set_rgb_backlight ==
    \E red \in ByteValues, green \in ByteValues, blue \in ByteValues, r \in Outcomes(1) :
        /\ Returns(send_commands(address,
                                 <<SETTING_COMMAND, SET_RGB_COMMAND, red, green, blue>>, r[1]),
                   r[1], Call("set_rgb_backlight", <<>>, <<>>, red, green, blue))
        /\ UNCHANGED <<address, lcd_columns, lcd_rows, index, displayControl>>

row_offsets == <<0, 64, 20, 84>>

\* the upper clamp one row short: min(row, MAX_ROWS - 2)
clamp_row_short(row) == Min(Max(0, row), MAX_ROWS - 2)

\* row = max(0, row); row = min(row, MAX_ROWS - 1)
clamp_row(row) == Min(Max(0, row), MAX_ROWS - 1)

set_cursor_block(col, row) ==
    <<SPECIAL_COMMAND, BitOr(LCD_SETDDRAMADDR, col + row_offsets[clamp_row(row) + 1])>>

set_cursor(cols, rows) ==
    \E col \in cols, row \in rows, r \in Outcomes(1) :
        /\ Returns(send_commands(address, set_cursor_block(col, row), r[1]),
                   r[1], Call("set_cursor", <<>>, <<>>, col, row, 0))
        /\ UNCHANGED <<address, lcd_columns, lcd_rows, index, displayControl>>

\* the display-control command carrying the flags dc
control_block(dc) == <<SPECIAL_COMMAND, BitOr(LCD_DISPLAYCONTROL, dc)>>

\* one enable_x / disable_x method: the flags are updated, then sent
Toggle(name, dc) ==
    \E r \in Outcomes(1) :
        /\ displayControl' = dc
        /\ Returns(send_commands(address, control_block(dc), r[1]),
                   r[1], Call(name, <<>>, <<>>, 0, 0, 0))
        /\ UNCHANGED <<address, lcd_columns, lcd_rows, index>>

\* enable_cursor assigning the flag instead of or-ing it in
enable_cursor_assign == Toggle("enable_cursor", LCD_CURSORON)

enable_cursor == Toggle("enable_cursor", BitOr(displayControl, LCD_CURSORON))
disable_cursor == Toggle("disable_cursor", BitAndNot(displayControl, LCD_CURSORON))
enable_cursor_blink == Toggle("enable_cursor_blink", BitOr(displayControl, LCD_BLINKON))
disable_cursor_blink == Toggle("disable_cursor_blink", BitAndNot(displayControl, LCD_BLINKON))
enable_display == Toggle("enable_display", BitOr(displayControl, LCD_DISPLAYON))
disable_display == Toggle("disable_display", BitAndNot(displayControl, LCD_DISPLAYON))

Setting(name, opcode) ==
    \E r \in Outcomes(1) :
        /\ Returns(send_commands(address, <<SETTING_COMMAND, opcode>>, r[1]),
                   r[1], Call(name, <<>>, <<>>, 0, 0, 0))
        /\ UNCHANGED <<address, lcd_columns, lcd_rows, index, displayControl>>

enable_system_messages == Setting("enable_system_messages", ENABLE_SYSTEM_MESSAGE_DISPLAY)
disable_system_messages == Setting("disable_system_messages", DISABLE_SYSTEM_MESSAGE_DISPLAY)
enable_splash == Setting("enable_splash", ENABLE_SPLASH_DISPLAY)
disable_splash == Setting("disable_splash", DISABLE_SPLASH_DISPLAY)
save_splash == Setting("save_splash", SAVE_CURRENT_DISPLAY_AS_SPLASH)

\* set_address without the update of self.address
set_address_stale ==
    \E new_address \in Addresses, r \in Outcomes(1) :
        /\ Returns(send_commands(address,
                                 <<SETTING_COMMAND, ADDRESS_COMMAND, new_address>>, r[1])
                       \o <<SleepEv(AddressSettleMs)>>,
                   r[1], Call("set_address", <<>>, <<>>, new_address, 0, 0))
        /\ UNCHANGED <<address, lcd_columns, lcd_rows, index, displayControl>>

set_address ==
    \E new_address \in Addresses, r \in Outcomes(1) :
        /\ Returns(send_commands(address,
                                 <<SETTING_COMMAND, ADDRESS_COMMAND, new_address>>, r[1])
                       \o <<SleepEv(AddressSettleMs)>>,
                   r[1], Call("set_address", <<>>, <<>>, new_address, 0, 0))
        /\ address' = new_address
        /\ UNCHANGED <<lcd_columns, lcd_rows, index, displayControl>>

\* ---------------------------------------------------------------------
\* Initialisation sequences
\* ---------------------------------------------------------------------
begin ==
    \E r \in Outcomes(3) :
        /\ Returns(<<SleepEv(BeginWaitMs)>>
                       \o send_commands(address, control_block(displayControl), r[1])
                       \o send_commands(address,
                                        <<SPECIAL_COMMAND, BitOr(LCD_ENTRYMODESET, displayMode)>>,
                                        r[2])
                       \o clear_display_writes(address, r[3]),
                   PyBoolAnd(PyBoolAnd(PyBool(r[1]), PyBool(r[2])), PyBool(r[3])),
                   Call("begin", <<>>, <<>>, 0, 0, 0))
        /\ UNCHANGED <<address, lcd_columns, lcd_rows, index, displayControl>>

default_settings ==
    \E r \in Outcomes(8) :
        LET off == BitAndNot(displayControl, LCD_DISPLAYON)
            on == BitOr(off, LCD_DISPLAYON)
        IN  /\ Returns(send_commands(address, control_block(off), r[1])
                           \o send_commands(address,
                                  <<SETTING_COMMAND, DISABLE_SYSTEM_MESSAGE_DISPLAY>>, r[2])
                           \o send_commands(address,
                                  <<SETTING_COMMAND, CONTRAST_COMMAND, defaultValue>>, r[3])
                           \o send_commands(address,
                                  <<SETTING_COMMAND, SET_RGB_COMMAND,
                                    defaultValue, defaultValue, defaultValue>>, r[4])
                           \o send_commands(address,
                                  <<SETTING_COMMAND, ENABLE_SPLASH_DISPLAY>>, r[5])
                           \o clear_display_writes(address, r[6])
                           \o send_commands(address,
                                  <<SETTING_COMMAND, ENABLE_SYSTEM_MESSAGE_DISPLAY>>, r[7])
                           \o send_commands(address, control_block(on), r[8]),
                       "None", Call("default_settings", <<>>, <<>>, 0, 0, 0))
            /\ displayControl' = on
            /\ UNCHANGED <<address, lcd_columns, lcd_rows, index>>

\* the caller lets one settle delay's worth of time pass between two calls
Pause == SettleMs

Idle ==
    /\ elapsed < MaxElapsed
    /\ elapsed' = Sat(elapsed + Pause)
    /\ bus' = <<>>
    /\ ret' = "None"
    /\ call' = Call("idle", <<>>, <<>>, 0, 0, 0)
    /\ window' = NoWindow
    /\ UNCHANGED <<address, lcd_columns, lcd_rows, index, displayControl>>

\* ---------------------------------------------------------------------
\* Specifications
\* ---------------------------------------------------------------------
\* the whole driver on one single-row display
Init == Construct({MaxColumns}, {1})

Next ==
    \/ begin
    \/ default_settings
    \/ display(MainTexts)
    \/ append_display(MainTexts)
    \/ display_lines(MainTexts)
    \/ display_scrolling(MainTexts)
    \/ clear_display
    \/ set_contrast
    \/ set_rgb_backlight
    \/ set_cursor(MainCursorCols, MainCursorRows)
    \/ enable_cursor
    \/ disable_cursor
    \/ enable_cursor_blink
    \/ disable_cursor_blink
    \/ enable_display
    \/ disable_display
    \/ enable_system_messages
    \/ disable_system_messages
    \/ enable_splash
    \/ disable_splash
    \/ save_splash
    \/ set_address
    \/ Idle

Spec == Init /\ [][Next]_vars

\* the text operations on a fresh handle, over every geometry and every
\* text of the bounds
InitText == Construct(0..MaxColumns, 0..MaxRows)

Fresh == call.op = "__init__"

NextText ==
    \/ Fresh /\ display(AllTexts)
    \/ Fresh /\ display_lines(AllTexts)
    \/ Fresh /\ append_display(AllTexts)

SpecText == InitText /\ [][NextText]_vars

\* the marquee over every geometry and every text of the bounds
NextScroll ==
    \/ display_scrolling(AllTexts)
    \/ Idle

SpecScroll == InitText /\ [][NextScroll]_vars

\* cursor addressing on a fresh handle, over the columns and rows of the bounds
NextCursor ==
    \/ Fresh /\ set_cursor(CursorCols, CursorRows)

SpecCursor == Init /\ [][NextCursor]_vars

\* the marquee when the caller polls one and the same message
PolledMessage == <<65, 66>>

NextMarquee ==
    \/ display_scrolling({PolledMessage})
    \/ Idle

SpecMarquee == InitText /\ [][NextMarquee]_vars

\* the operations that write text, on single-row displays
InitScreen == Construct(1..MaxColumns, {1})

ScreenTexts == {<<65>>, <<65, 66, 66>>}

NextScreen ==
    \/ display_scrolling(AllTexts)
    \/ display(ScreenTexts)
    \/ display_lines(ScreenTexts)
    \/ append_display(ScreenTexts)
    \/ clear_display
    \/ Idle

SpecScreen == InitScreen /\ [][NextScreen]_vars

\* ---------------------------------------------------------------------
\* Properties
\* ---------------------------------------------------------------------
IsSleep(e, ms) == e.ev = "sleep" /\ e.ms = ms
IsWrite(e, kind, addr, data) == e.ev = kind /\ e.addr = addr /\ e.data = data

\* the bit of weight m (a power of two) in x
Bit(x, m) == (x \div m) % 2

ToggleOps == {"enable_cursor", "disable_cursor", "enable_cursor_blink",
              "disable_cursor_blink", "enable_display", "disable_display"}

\* the flags after toggle op on flags dc: the toggled bit takes the value
\* the toggle names, the other two keep theirs
FlagsAfter(op, dc) ==
    4 * (IF op = "enable_display" THEN 1
         ELSE IF op = "disable_display" THEN 0 ELSE Bit(dc, 4))
    + 2 * (IF op = "enable_cursor" THEN 1
           ELSE IF op = "disable_cursor" THEN 0 ELSE Bit(dc, 2))
    + (IF op = "enable_cursor_blink" THEN 1
       ELSE IF op = "disable_cursor_blink" THEN 0 ELSE Bit(dc, 1))

\* C1: the flags start as {display on, cursor off, blink off}; every
\* enable/disable call sets or clears exactly its own bit, keeps the other
\* two, and writes exactly the two bytes 0xFE, 0x08 | flags with the
\* resulting flags.
C1_TogglesSendAccumulatedFlags ==
    /\ displayControl = 4
    /\ [][call'.op \in ToggleOps =>
            /\ displayControl' = FlagsAfter(call'.op, displayControl)
            /\ Len(bus') = 2
            /\ IsWrite(bus'[1], "cmd", address, <<254, 8 + displayControl'>>)
            /\ IsSleep(bus'[2], 10)]_vars

C1_Witness ==
    /\ call.op = "enable_cursor"
    /\ displayControl = 3
    /\ Len(bus) = 2
    /\ bus[1].data = <<254, 11>>

\* the first n characters of s, all of s when it is shorter
FirstChars(s, n) == [k \in 1..(IF Len(s) < n THEN Len(s) ELSE n) |-> s[k]]

\* C2: display(text) issues the clear command 0x7C, 0x2D and then one text
\* write whose payload is the first min(len(text), columns*rows) characters
\* of text.
C2_DisplayClearsThenTruncates ==
    call.op = "display" =>
        /\ Len(bus) = 4
        /\ IsWrite(bus[1], "cmd", address, <<124, 45>>)
        /\ IsSleep(bus[2], 10)
        /\ IsWrite(bus[3], "text", address, FirstChars(call.s1, lcd_columns * lcd_rows))
        /\ IsSleep(bus[4], 10)

C2_Witness ==
    /\ call.op = "display"
    /\ lcd_columns * lcd_rows = 2
    /\ Len(call.s1) = 3
    /\ Len(bus) = 4
    /\ bus[3].data = <<call.s1[1], call.s1[2]>>

\* C3: when the write issued by set_address reports failure, the stored
\* address after the call is the address before the call.
C3_FailedSetAddressKeepsAddress ==
    [][call'.op = "set_address" /\ Len(bus') > 0 /\ bus'[1].res = "fail"
           => address' = address]_vars

\* C4: a set_address(a) whose write succeeds writes 0x7C, 0x19, a to the old
\* address, sleeps the settle delay and then the extended 50 ms delay, and
\* leaves a as the stored address; every other operation addresses all its
\* writes to the stored address and leaves it unchanged.
C4_AddressFollowsSetAddress ==
    [][/\ call'.op = "set_address" =>
            /\ Len(bus') = 3
            /\ bus'[1].res = "ok" =>
                  /\ IsWrite(bus'[1], "cmd", address, <<124, 25, call'.i1>>)
                  /\ IsSleep(bus'[2], 10)
                  /\ IsSleep(bus'[3], 50)
                  /\ address' = call'.i1
       /\ call'.op # "set_address" =>
            /\ address' = address
            /\ \A i \in 1..Len(bus') :
                  bus'[i].ev # "sleep" => bus'[i].addr = address]_vars

C4_Witness ==
    /\ call.op = "display"
    /\ address = 80
    /\ Len(bus) = 4
    /\ bus[1].addr = 80
    /\ bus[3].addr = 80

\* 0x80 | x for a byte x
OrBit7(x) == IF Bit(x, 128) = 1 THEN x ELSE x + 128

\* C5: set_cursor(col, row) writes exactly 0xFE, 0x80 | (col + T[r]) where r
\* is row clamped into 0..3 and T = [0x00, 0x40, 0x14, 0x54]; col is not
\* clamped.
C5_SetCursorClampsRow ==
    call.op = "set_cursor" =>
        LET r == IF call.i2 < 0 THEN 0 ELSE IF call.i2 > 3 THEN 3 ELSE call.i2
            T == [k \in 0..3 |-> CASE k = 0 -> 0 [] k = 1 -> 64 [] k = 2 -> 20 [] k = 3 -> 84]
        IN  /\ Len(bus) = 2
            /\ IsWrite(bus[1], "cmd", address, <<254, OrBit7(call.i1 + T[r])>>)
            /\ IsSleep(bus[2], 10)

C5_Witness ==
    /\ call.op = "set_cursor"
    /\ call.i1 = 2
    /\ call.i2 = 5
    /\ Len(bus) = 2
    /\ bus[1].data = <<254, 214>>

\* line1 cut to cols characters and filled with spaces up to cols, then
\* line2 cut to cols characters
TwoLines(line1, line2, cols) ==
    [k \in 1..cols |-> IF k <= Len(line1) THEN line1[k] ELSE 32]
        \o FirstChars(line2, cols)

\* C6 as stated: for any geometry the payload of display_lines is line1
\* truncated and padded to columns characters followed by line2 truncated
\* to columns characters.
C6_LinesPayloadAnyRows ==
    call.op = "display_lines" =>
        /\ Len(bus) = 4
        /\ bus[3].data = TwoLines(call.s1, call.s2, lcd_columns)

\* C6 amended: the payload of display_lines is the first columns*rows
\* characters of (line1 truncated and padded to columns, then line2
\* truncated to columns); with two rows or more that is the whole string,
\* so line2 starts at payload offset columns.
C6_LinesPayloadWithinScreen ==
    call.op = "display_lines" =>
        /\ Len(bus) = 4
        /\ IsWrite(bus[1], "cmd", address, <<124, 45>>)
        /\ IsWrite(bus[3], "text", address,
                   FirstChars(TwoLines(call.s1, call.s2, lcd_columns),
                              lcd_columns * lcd_rows))
        /\ lcd_rows >= 2 => bus[3].data = TwoLines(call.s1, call.s2, lcd_columns)

C6_Witness ==
    /\ call.op = "display_lines"
    /\ lcd_columns = 2
    /\ lcd_rows = 2
    /\ Len(call.s1) = 1
    /\ Len(call.s2) = 3
    /\ Len(bus) = 4
    /\ bus[3].data = <<call.s1[1], 32, call.s2[1], call.s2[2]>>

\* a display_scrolling call that refreshed the screen
Refreshed == call.op = "display_scrolling" /\ Len(bus) > 0

\* C7: after a display_scrolling call the index is within
\* 0..len(message) of that call's message, and so was the index the window
\* of a refresh was computed from.
C7_IndexWithinMessage ==
    call.op = "display_scrolling" =>
        /\ 0 <= index
        /\ index <= Len(call.s1)
        /\ Refreshed => window.index <= Len(call.s1)

\* C8 as stated: the window composed by a refresh has exactly columns*rows
\* characters, for every message and index.
C8_WindowAlwaysFull ==
    Refreshed => Len(window.text) = lcd_columns * lcd_rows

\* C8 amended: a refresh with a message of at least columns*rows characters
\* writes a text of exactly columns*rows characters, and the composed
\* window has that length when the index it is computed from is at most
\* len(message).
C8_WindowFullForLongMessage ==
    Refreshed /\ Len(call.s1) >= lcd_columns * lcd_rows =>
        /\ Len(bus) = 4
        /\ Len(bus[3].data) = lcd_columns * lcd_rows
        /\ window.index <= Len(call.s1) => Len(window.text) = lcd_columns * lcd_rows

C8_Witness ==
    /\ Refreshed
    /\ lcd_columns * lcd_rows = 2
    /\ Len(call.s1) = 3
    /\ window.index = 2
    /\ Len(window.text) = 2

\* message[lo:hi] for 0 <= lo
Between(s, lo, hi) ==
    LET a == IF lo > Len(s) THEN Len(s) ELSE lo
        b == IF hi > Len(s) THEN Len(s) ELSE hi
    IN  [k \in 1..(b - a) |-> s[a + k]]

\* the window of message m, width w, starting at index i
Marquee(m, w, i) ==
    Between(m, i, i + w) \o (IF i + w > Len(m) THEN Between(m, 0, i + w - Len(m)) ELSE <<>>)

\* C9: a due display_scrolling call composes message[index : index+W]
\* followed, when index+W > len(message), by message[0 : index+W-len(message)],
\* hands it to display (clear, then its first W characters: all of it when
\* index <= len(message)), sets last-refresh to the current time and moves
\* index to index+1, or to 0 when index+1 exceeds len(message).
C9_RefreshShowsWindowAndAdvances ==
    [][call'.op = "display_scrolling" /\ elapsed > call'.i1 =>
          LET m == call'.s1
              w == lcd_columns * lcd_rows
          IN  /\ window'.index = index
              /\ window'.text = Marquee(m, w, index)
              /\ Len(bus') = 4
              /\ IsWrite(bus'[1], "cmd", address, <<124, 45>>)
              /\ IsWrite(bus'[3], "text", address, FirstChars(Marquee(m, w, index), w))
              /\ index <= Len(m) => bus'[3].data = Marquee(m, w, index)
              /\ elapsed' = 0
              /\ index' = (IF index + 1 > Len(m) THEN 0 ELSE index + 1)]_vars

C9_Witness ==
    /\ Refreshed
    /\ lcd_columns * lcd_rows = 2
    /\ call.s1 = <<65, 66, 66>>
    /\ window.index = 2
    /\ bus[3].data = <<66, 65>>
    /\ index = 3
    /\ elapsed = 0

\* the time a step lets pass: the sleeps of the operation, or the caller's
\* pause
Passed == IF call'.op = "idle" THEN Pause ELSE Slept(bus')

\* C10: a display_scrolling call with now - last_refresh <= duration writes
\* nothing and leaves index and last-refresh as they were, and every other
\* operation leaves index and last-refresh as they were (the time since the
\* last refresh only grows by the time the operation takes).
C10_ScrollStateFrame ==
    [][/\ call'.op = "display_scrolling" /\ elapsed <= call'.i1 =>
            /\ bus' = <<>>
            /\ index' = index
            /\ elapsed' = elapsed
       /\ call'.op # "display_scrolling" =>
            /\ index' = index
            /\ elapsed' = (IF elapsed + Passed > MaxElapsed
                           THEN MaxElapsed ELSE elapsed + Passed)]_vars

C10_Witness ==
    /\ call.op = "display_scrolling"
    /\ bus = <<>>
    /\ index = 1
    /\ elapsed = call.i1

\* C11: for one message of length L >= 1 polled repeatedly, the window of
\* each refresh starts one character (circularly, modulo L) after the start
\* of the window of the previous refresh: after a refresh that started at
\* window.index, the next one starts at index, which is one further modulo
\* L; and a refresh happens only when more than duration has passed since
\* the last one, which it restarts.
C11_MarqueeOneStepPerRefresh ==
    /\ [](Refreshed /\ Len(call.s1) >= 1 =>
            index % Len(call.s1) = (window.index + 1) % Len(call.s1))
    /\ [][call'.op = "display_scrolling" /\ Len(bus') > 0 =>
            elapsed > call'.i1 /\ elapsed' = 0]_vars

\* the results of the writes in a log, in order
RECURSIVE WriteResults(_)
WriteResults(log) ==
    IF log = <<>> THEN <<>>
    ELSE IF Head(log).ev = "sleep" THEN WriteResults(Tail(log))
    ELSE <<Head(log).res>> \o WriteResults(Tail(log))

AllOk(log) == \A i \in 1..Len(log) : log[i].ev # "sleep" => log[i].res = "ok"

\* C12: begin() attempts its three writes whatever their results and
\* returns True exactly when all three succeeded, False otherwise.
C12_BeginReturnsAndOfThree ==
    call.op = "begin" =>
        /\ Len(WriteResults(bus)) = 3
        /\ ret \in {"True", "False"}
        /\ ret = "True" <=> AllOk(bus)

C12_Witness ==
    /\ call.op = "begin"
    /\ WriteResults(bus) = <<"ok", "fail", "ok">>
    /\ ret = "False"

\* the bytes of the writes in a log, in order
RECURSIVE WriteData(_)
WriteData(log) ==
    IF log = <<>> THEN <<>>
    ELSE IF Head(log).ev = "sleep" THEN WriteData(Tail(log))
    ELSE <<Head(log).data>> \o WriteData(Tail(log))

\* C13 as stated: in every reachable state begin() waits 1 s and then writes
\* 0xFE, 0x0C (the initial flags), then 0xFE, 0x06, then 0x7C, 0x2D.
C13_BeginSendsInitialFlags ==
    call.op = "begin" =>
        /\ Len(bus) = 7
        /\ IsSleep(bus[1], 1000)
        /\ WriteData(bus) = << <<254, 12>>, <<254, 6>>, <<124, 45>> >>

\* C13 amended: begin() waits 1 s and then issues exactly three writes in
\* this order: the display-control command carrying the flags the handle
\* holds at the call (0xFE, 0x08 | flags; 0x0C on a handle whose flags are
\* still the initial ones), which begin leaves unchanged, the entry-mode
\* command 0xFE, 0x06, and the clear command 0x7C, 0x2D.
C13_BeginSendsCurrentFlags ==
    [][call'.op = "begin" =>
          /\ displayControl' = displayControl
          /\ Len(bus') = 7
          /\ IsSleep(bus'[1], 1000)
          /\ \A i \in {2, 4, 6} : bus'[i].ev = "cmd" /\ bus'[i].addr = address
          /\ WriteData(bus') = << <<254, 8 + displayControl>>, <<254, 6>>, <<124, 45>> >>
          /\ displayControl = 4 => bus'[2].data = <<254, 12>>]_vars

C13_Witness ==
    /\ call.op = "begin"
    /\ displayControl = 6
    /\ Len(bus) = 7
    /\ bus[2].data = <<254, 14>>
    /\ bus[4].data = <<254, 6>>
    /\ bus[6].data = <<124, 45>>

\* C14: default_settings() issues exactly eight writes in this order:
\* display control with the display bit cleared, 0x7C 0x2F, 0x7C 0x18 20,
\* 0x7C 0x2B 20 20 20, 0x7C 0x30, 0x7C 0x2D, 0x7C 0x2E, display control
\* with the display bit set; on return the display flag is on and the
\* cursor and blink flags are what they were before the call.
C14_DefaultSettingsSequence ==
    [][call'.op = "default_settings" =>
          LET kept == 2 * Bit(displayControl, 2) + Bit(displayControl, 1)
          IN  /\ displayControl' = 4 + kept
              /\ \A i \in 1..Len(bus') : bus'[i].ev # "sleep" =>
                     bus'[i].ev = "cmd" /\ bus'[i].addr = address
              /\ WriteData(bus') =
                     << <<254, 8 + kept>>, <<124, 47>>, <<124, 24, 20>>,
                        <<124, 43, 20, 20, 20>>, <<124, 48>>, <<124, 45>>,
                        <<124, 46>>, <<254, 12 + kept>> >>]_vars

C14_Witness ==
    /\ call.op = "default_settings"
    /\ displayControl = 7
    /\ Len(bus) = 16
    /\ bus[1].data = <<254, 11>>
    /\ bus[5].data = <<124, 24, 20>>
    /\ bus[15].data = <<254, 15>>

\* C15: an operation one of whose writes reports failure returns failure
\* and leaves the flags, the scroll index and last-refresh as they were.
C15_FailedWriteChangesNothing ==
    [][Len(bus') > 0 /\ ~AllOk(bus') =>
          /\ ret' \in {"fail", "False"}
          /\ displayControl' = displayControl
          /\ index' = index
          /\ elapsed' = (IF elapsed + Passed > MaxElapsed
                         THEN MaxElapsed ELSE elapsed + Passed)]_vars

\* the shape of a log: 0 for a write, the milliseconds for a sleep
Shape(log) == [i \in 1..Len(log) |-> IF log[i].ev = "sleep" THEN log[i].ms ELSE 0]

\* a call of a driver operation that did something
Operated ==
    /\ call.op \notin {"__init__", "idle"}
    /\ ~(call.op = "display_scrolling" /\ bus = <<>>)

\* C16 as stated: every operation issues exactly one write and then one
\* settle delay.
C16_OneWritePerOperation ==
    Operated => Shape(bus) = <<0, 10>>

TwoWriteOps == {"display", "display_lines", "display_scrolling"}

\* C16 amended: every write of an operation is followed by one settle delay
\* of 10 ms; display, display_lines and a due display_scrolling issue two
\* writes, begin waits 1 s and issues three, default_settings issues eight,
\* set_address issues one and waits 50 ms more, and every other operation
\* issues exactly one write and one settle delay.
C16_WritesPerOperation ==
    Operated =>
        Shape(bus) =
            CASE call.op \in TwoWriteOps -> <<0, 10, 0, 10>>
              [] call.op = "begin" -> <<1000, 0, 10, 0, 10, 0, 10>>
              [] call.op = "default_settings" ->
                     <<0, 10, 0, 10, 0, 10, 0, 10, 0, 10, 0, 10, 0, 10, 0, 10>>
              [] call.op = "set_address" -> <<0, 10, 50>>
              [] OTHER -> <<0, 10>>

C16_Witness ==
    /\ call.op = "display"
    /\ Shape(bus) = <<0, 10, 0, 10>>
    /\ bus[1].data = <<124, 45>>
    /\ bus[3].ev = "text"

\* the result of the underlying writes of an operation: failure when one of
\* them failed
Underlying(log) == IF AllOk(log) THEN "ok" ELSE "fail"

\* C17: every operation other than begin() returns the result of its
\* underlying write: failure when the write failed, success when it
\* succeeded.
C17_ResultPropagated ==
    Operated /\ call.op # "begin" => ret = Underlying(bus)

\* C18: every write in the log of an operation is directly followed by a
\* settle delay of 10 ms, so the log never ends with a write and the next
\* write, of this or of the next operation, comes after the delay; and a
\* failed write is not followed by a write of the same bytes.
C18_SettleDelayAfterEveryWrite ==
    \A i \in 1..Len(bus) :
        bus[i].ev # "sleep" =>
            /\ i < Len(bus)
            /\ IsSleep(bus[i + 1], 10)
            /\ (i + 2 <= Len(bus) /\ bus[i].res = "fail") =>
                  ~(bus[i + 2].ev = bus[i].ev /\ bus[i + 2].data = bus[i].data)

C18_Witness ==
    /\ call.op = "begin"
    /\ Len(bus) = 7
    /\ bus[2].res = "fail"
    /\ IsSleep(bus[3], 10)
    /\ bus[4].data = <<254, 6>>
    /\ IsSleep(bus[7], 10)

\* C19: every text written by display, display_lines or display_scrolling
\* has at most columns*rows characters and is the write right after a clear
\* command of the same operation, whatever the stored index; of the other
\* operations only append_display writes text.
C19_TextWithinScreenAfterClear ==
    /\ call.op \in TwoWriteOps =>
          \A i \in 1..Len(bus) :
              bus[i].ev = "text" =>
                  /\ Len(bus[i].data) <= lcd_columns * lcd_rows
                  /\ i >= 3
                  /\ IsWrite(bus[i - 2], "cmd", address, <<124, 45>>)
                  /\ bus[i - 1].ev = "sleep"
    /\ call.op \notin TwoWriteOps \cup {"append_display"} =>
          \A i \in 1..Len(bus) : bus[i].ev # "text"

C19_Witness ==
    /\ Refreshed
    /\ window.index > Len(call.s1)
    /\ Len(window.text) > lcd_columns * lcd_rows
    /\ Len(bus) = 4
    /\ Len(bus[3].data) = lcd_columns * lcd_rows

\* append_display does write a text longer than the screen, with no clear
AppendOverflows ==
    /\ call.op = "append_display"
    /\ Len(bus) = 2
    /\ bus[1].ev = "text"
    /\ Len(bus[1].data) > lcd_columns * lcd_rows

====
